---- MODULE Spec2Model ----
(***************************************************************************)
(* Password strength meter (src/app.py): the analyzer analyze_password,    *)
(* the generator generate_strong_password and the Streamlit script main()  *)
(* with its two session histories.                                         *)
(*                                                                         *)
(* Characters are code points (ASCII, 32..126), strings are sequences of   *)
(* code points.  Python floats are IEEE-754 binary64 numbers: a float is a *)
(* record [m, e] with value m * 2^e, m = 0 or 2^52 <= m < 2^53, m kept as  *)
(* a little-endian sequence of 15-bit limbs; + and / round to nearest,     *)
(* ties to even, as the hardware does.                                     *)
(***************************************************************************)
EXTENDS Integers, Sequences, FiniteSets, TLC

VARIABLES
    user_password,        \* st.text_input of tab1
    weights,              \* the five sidebar number_inputs (floats)
    analysis,             \* what analyze_password returned in the last run
    button,               \* the st.button that returned True in the last run
    outcome,              \* what the last script run did
    password_analysis,    \* st.session_state.password_analysis
    generated_passwords,  \* st.session_state.generated_passwords
    pass_length,          \* the length asked of generate_strong_password
    random,               \* the tape of draws the random module reads from
    generated             \* what generate_strong_password returned

vars == <<user_password, weights, analysis, button, outcome, password_analysis,
          generated_passwords, pass_length, random, generated>>

Max(a, b) == IF a >= b THEN a ELSE b

(***************************************************************************)
(* string: the constants of the string module, and the str methods used.   *)
(***************************************************************************)
\* The characters a..b in order
Chars(a, b) == [i \in 1..(b - a + 1) |-> a + i - 1]

Range(f) == {f[i] : i \in DOMAIN f}

ascii_lowercase == Chars(97, 122)
ascii_uppercase == Chars(65, 90)
ascii_letters == ascii_lowercase \o ascii_uppercase
digits == Chars(48, 57)
punctuation == Chars(33, 47) \o Chars(58, 64) \o Chars(91, 96) \o Chars(123, 126)

isupper(c) == c \in 65..90
islower(c) == c \in 97..122
isdigit(c) == c \in 48..57

lower_unchanged(s) == s

\* str.lower(), character by character
lower(s) == [i \in 1..Len(s) |-> IF isupper(s[i]) THEN s[i] + 32 ELSE s[i]]

BLACKLIST_short == {
    <<49, 50, 51, 52, 53, 54>>,
    <<49, 50, 51, 52, 53, 54, 55, 56, 57>>,
    <<103, 117, 101, 115, 116>>,
    <<97, 100, 109, 105, 110>>,
    <<113, 119, 101, 114, 116, 121>>,
    <<108, 101, 116, 109, 101, 105, 110>>,
    <<109, 111, 110, 107, 101, 121>>,
    <<115, 117, 110, 115, 104, 105, 110, 101>>,
    <<105, 108, 111, 118, 101, 121, 111, 117>> }

BLACKLIST == {
    <<112, 97, 115, 115, 119, 111, 114, 100>>,       \* password
    <<49, 50, 51, 52, 53, 54>>,                      \* 123456
    <<49, 50, 51, 52, 53, 54, 55, 56, 57>>,          \* 123456789
    <<103, 117, 101, 115, 116>>,                     \* guest
    <<97, 100, 109, 105, 110>>,                      \* admin
    <<113, 119, 101, 114, 116, 121>>,                \* qwerty
    <<108, 101, 116, 109, 101, 105, 110>>,           \* letmein
    <<109, 111, 110, 107, 101, 121>>,                \* monkey
    <<115, 117, 110, 115, 104, 105, 110, 101>>,      \* sunshine
    <<105, 108, 111, 118, 101, 121, 111, 117>> }     \* iloveyou

(***************************************************************************)
(* Natural numbers of any size: little-endian limbs, no leading zero limb. *)
(***************************************************************************)
LimbBits == 15
Base == 2^LimbBits

Limb(a, i) == IF i <= Len(a) THEN a[i] ELSE 0

RECURSIVE BigStrip(_)
BigStrip(a) ==
    IF a = <<>> THEN <<>>
    ELSE IF a[Len(a)] = 0 THEN BigStrip(SubSeq(a, 1, Len(a) - 1))
    ELSE a

RECURSIVE BigFromNat(_)
BigFromNat(n) == IF n = 0 THEN <<>> ELSE <<n % Base>> \o BigFromNat(n \div Base)

RECURSIVE BigAddFrom(_, _, _, _)
BigAddFrom(a, b, i, c) ==
    IF i > Len(a) /\ i > Len(b) THEN (IF c = 0 THEN <<>> ELSE <<c>>)
    ELSE LET x == Limb(a, i) + Limb(b, i) + c
         IN  <<x % Base>> \o BigAddFrom(a, b, i + 1, x \div Base)

BigAdd(a, b) == BigAddFrom(a, b, 1, 0)

RECURSIVE BigGEFrom(_, _, _)
BigGEFrom(a, b, i) ==
    IF i = 0 THEN TRUE
    ELSE IF a[i] # b[i] THEN a[i] > b[i]
    ELSE BigGEFrom(a, b, i - 1)

BigGE(a, b) == IF Len(a) # Len(b) THEN Len(a) > Len(b) ELSE BigGEFrom(a, b, Len(a))

RECURSIVE BigSubFrom(_, _, _, _)
BigSubFrom(a, b, i, borrow) ==
    IF i > Len(a) THEN <<>>
    ELSE LET x == a[i] - Limb(b, i) - borrow
         IN  <<(x + Base) % Base>> \o BigSubFrom(a, b, i + 1, IF x < 0 THEN 1 ELSE 0)

BigSub(a, b) == BigStrip(BigSubFrom(a, b, 1, 0))

RECURSIVE BigMulFrom(_, _, _, _)
BigMulFrom(a, c, i, carry) ==
    IF i > Len(a) THEN BigFromNat(carry)
    ELSE LET x == a[i] * c + carry
         IN  <<x % Base>> \o BigMulFrom(a, c, i + 1, x \div Base)

\* a * c for a limb-sized c
BigMulSmall(a, c) == IF c = 0 THEN <<>> ELSE BigMulFrom(a, c, 1, 0)

BigShl(a, k) ==
    IF a = <<>> THEN <<>>
    ELSE [i \in 1..(k \div LimbBits) |-> 0] \o BigMulSmall(a, 2^(k % LimbBits))

BigShr(a, k) ==
    LET q == k \div LimbBits
        r == k % LimbBits
        b == SubSeq(a, q + 1, Len(a))
    IN  BigStrip([i \in 1..Len(b) |->
            (b[i] \div 2^r) + (Limb(b, i + 1) % 2^r) * 2^(LimbBits - r)])

RECURSIVE BitsOf(_)
BitsOf(x) == IF x = 0 THEN 0 ELSE 1 + BitsOf(x \div 2)

BigBitLen(a) == IF a = <<>> THEN 0 ELSE (Len(a) - 1) * LimbBits + BitsOf(a[Len(a)])

BigOdd(a) == a # <<>> /\ a[1] % 2 = 1

(***************************************************************************)
(* float: binary64, non-negative values only (weights are >= 0).           *)
(***************************************************************************)
Precision == 53

FZero == [m |-> <<>>, e |-> 0]

\* F(v), with v evaluated once before F uses it
Eval(F(_), v) == CHOOSE r \in {F(x) : x \in {v}} : TRUE

\* The float nearest to N * 2^e, ties to even; with sticky, the exact value
\* lies strictly between N * 2^e and (N + 1) * 2^e.
RoundBig(a) ==
    LET N == a[1]
        e == a[2]
        n == BigBitLen(N)
    IN  IF n = 0 THEN FZero
        ELSE IF n <= Precision
        THEN [m |-> BigShl(N, Precision - n), e |-> e - (Precision - n)]
        ELSE LET k     == n - Precision
                 h     == BigShr(N, k - 1)
                 q     == BigShr(h, 1)
                 rest  == a[3] \/ BigShl(h, k - 1) # N
                 up    == BigOdd(h) /\ (rest \/ BigOdd(q))
                 m     == IF up THEN BigAdd(q, <<1>>) ELSE q
             IN  IF up /\ BigBitLen(m) > Precision
                 THEN [m |-> BigShr(m, 1), e |-> e + k + 1]
                 ELSE [m |-> m, e |-> e + k]

Round(N, e, sticky) == Eval(RoundBig, <<N, e, sticky>>)

\* float(n) of an int n that a float holds exactly
FromNat(n) == Round(BigFromNat(n), 0, FALSE)

AddFloats(a) ==
    LET x == a[1]
        y == a[2]
    IN  IF x.m = <<>> THEN y
        ELSE IF y.m = <<>> THEN x
        ELSE LET e == IF x.e < y.e THEN x.e ELSE y.e
             IN  Round(BigAdd(BigShl(x.m, x.e - e), BigShl(y.m, y.e - e)), e, FALSE)

\* x + y
FAdd(x, y) == Eval(AddFloats, <<x, y>>)

\* The largest g <= guess with d * g <= r
RECURSIVE DivDigitFrom(_, _, _)
DivDigitFrom(r, d, guess) ==
    IF BigGE(r, BigMulSmall(d, guess)) THEN guess ELSE DivDigitFrom(r, d, guess - 1)

\* floor(r / d) for r < d * Base and d of four limbs with its top limb >= Base / 2
DivDigit(r, d) ==
    LET est == (Limb(r, 5) * Base + Limb(r, 4)) \div d[4]
    IN  DivDigitFrom(r, d, IF est > Base - 1 THEN Base - 1 ELSE est)

LongDivStep(a) ==
    LET r0 == BigShl(a.r, LimbBits)
        g  == Eval(LAMBDA v : DivDigit(v, a.d), r0)
    IN  [r |-> BigSub(r0, BigMulSmall(a.d, g)), d |-> a.d, q |-> <<g>> \o a.q]

\* n more limbs of the quotient a.q of a.r / a.d
RECURSIVE LongDiv(_, _)
LongDiv(a, n) == IF n = 0 THEN a ELSE LongDiv(Eval(LongDivStep, a), n - 1)

FracLimbs == 4

DivFloats(a) ==
    LET x == a[1]
        y == a[2]
    IN  IF x.m = <<>> THEN FZero
        ELSE LET scale == 4 * LimbBits - Precision
                 xm == BigShl(x.m, scale)
                 ym == BigShl(y.m, scale)
                 g0 == IF BigGE(xm, ym) THEN 1 ELSE 0
                 d  == LongDiv([r |-> BigSub(xm, BigMulSmall(ym, g0)), d |-> ym,
                                q |-> BigFromNat(g0)], FracLimbs)
                 Quotient(v) == Round(BigStrip(v.q), x.e - y.e - FracLimbs * LimbBits,
                                      v.r # <<>>)
             IN  Eval(Quotient, d)

\* x / y for y > 0
FDiv(x, y) == Eval(DivFloats, <<x, y>>)

\* x * c for a small int c
FMulNat(x, c) == Eval(LAMBDA v : Round(BigMulSmall(v.m, c), v.e, FALSE), x)

GEFloats(a) ==
    LET x == a[1]
        y == a[2]
    IN  IF y.m = <<>> THEN TRUE
        ELSE IF x.m = <<>> THEN FALSE
        ELSE IF x.e # y.e THEN x.e > y.e
        ELSE BigGE(x.m, y.m)

\* x >= y
FGE(x, y) == Eval(GEFloats, <<x, y>>)

\* The float a number_input holding the decimal k/10 returns
Tenths(k) == FDiv(FromNat(k), FromNat(10))

(***************************************************************************)
(* analyze_password                                                        *)
(***************************************************************************)
\* The keys of the weights dict (and of the criteria dict), in insertion order
Keys == <<"length", "uppercase", "lowercase", "digit", "special">>

KeySet == {Keys[i] : i \in 1..Len(Keys)}

MinLength == 8

Criteria_gt(password) ==
    [length    |-> Len(password) > MinLength,
     uppercase |-> \E i \in 1..Len(password) : isupper(password[i]),
     lowercase |-> \E i \in 1..Len(password) : islower(password[i]),
     digit     |-> \E i \in 1..Len(password) : isdigit(password[i]),
     special   |-> \E i \in 1..Len(password) : password[i] \in Range(punctuation)]

Criteria(password) ==
    [length    |-> Len(password) >= MinLength,
     uppercase |-> \E i \in 1..Len(password) : isupper(password[i]),
     lowercase |-> \E i \in 1..Len(password) : islower(password[i]),
     digit     |-> \E i \in 1..Len(password) : isdigit(password[i]),
     special   |-> \E i \in 1..Len(password) : password[i] \in Range(punctuation)]

\* sum(...) over the first i items of w taken by the filter: 0 + w1 + w2 + ...
\* added left to right, each addition rounded (sum() of CPython up to 3.11)
RECURSIVE SumItems(_, _, _)
SumItems(w, taken, i) ==
    IF i = 0 THEN FZero
    ELSE IF taken[Keys[i]] THEN FAdd(SumItems(w, taken, i - 1), w[Keys[i]])
    ELSE SumItems(w, taken, i - 1)

total_score(w, criteria) == SumItems(w, criteria, Len(Keys))

max_score(w) == SumItems(w, [k \in KeySet |-> TRUE], Len(Keys))

StrengthOfPercent(score_percent) ==
    IF FGE(score_percent, FromNat(80)) THEN "Strong"
    ELSE IF FGE(score_percent, FromNat(40)) THEN "Moderate"
    ELSE "Weak"

Strength(total, max) ==
    IF max.m = <<>> THEN "Weak"
    ELSE Eval(StrengthOfPercent, FMulNat(FDiv(total, max), 100))

Hint(criterion) ==
    CASE criterion = "length"    -> "More characters (minimum 8)"
      [] criterion = "uppercase" -> "Uppercase letters"
      [] criterion = "lowercase" -> "Lowercase letters"
      [] criterion = "digit"     -> "Numbers"
      [] criterion = "special"   -> "Special characters"

FeedbackLines_all(strength, criteria) ==
    IF strength # "Strong"
    THEN <<"Strengthen your password by adding:">>
             \o [i \in 1..Len(Keys) |-> Hint(Keys[i])]
    ELSE <<>>

\* The feedback list
FeedbackLines(strength, criteria) ==
    IF strength # "Strong"
    THEN LET missing == SelectSeq(Keys, LAMBDA k : ~criteria[k])
         IN  <<"Strengthen your password by adding:">>
                 \o [i \in 1..Len(missing) |-> Hint(missing[i])]
    ELSE <<>>

\* "\n".join(lines)
RECURSIVE Join(_)
Join(lines) ==
    IF Len(lines) = 1 THEN lines[1]
    ELSE lines[1] \o "\n" \o Join(Tail(lines))

Feedback_by_criteria(strength, criteria) ==
    LET feedback == FeedbackLines(IF \A k \in KeySet : criteria[k] THEN "Strong" ELSE "Weak",
                                  criteria)
    IN  IF feedback # <<>> THEN Join(feedback) ELSE "Perfectly secure password!"

Feedback(strength, criteria) ==
    LET feedback == FeedbackLines(strength, criteria)
    IN  IF feedback # <<>> THEN Join(feedback) ELSE "Perfectly secure password!"

Verdict(a) ==
    [error     |-> FALSE,
     criteria  |-> a.criteria,
     score     |-> a.score,
     max_score |-> a.max_score,
     strength  |-> a.strength,
     feedback  |-> Feedback(a.strength, a.criteria)]

Scored(a) ==
    Eval(Verdict, [criteria |-> a.criteria, score |-> a.score, max_score |-> a.max_score,
                   strength |-> Strength(a.score, a.max_score)])

analyze_password(password, w) ==
    IF lower(password) \in BLACKLIST
    THEN [error   |-> TRUE,
          message |-> "Commonly used password detected! Please choose a different one."]
    ELSE LET criteria == Criteria(password)
         IN  Eval(Scored, [criteria |-> criteria, score |-> total_score(w, criteria),
                           max_score |-> max_score(w)])

\* No value yet
None == [none |-> TRUE]

(***************************************************************************)
(* random: every number the module draws below n is the first, the middle  *)
(* or the last of 0..n-1, as the tape says; the k-th draw of a call reads  *)
(* the tape at position k, cyclically.                                     *)
(***************************************************************************)
randbelow(tape, k, n) ==
    LET kind == tape[(k % Len(tape)) + 1]
    IN  IF kind = 0 THEN 0 ELSE IF kind = 1 THEN n \div 2 ELSE n - 1

\* random.choice(seq), as draw k
random_choice(seq, tape, k) == seq[randbelow(tape, k, Len(seq)) + 1]

\* random.choices(population, k=count), as draws k, k+1, ...: empty when
\* count is not positive
random_choices(population, count, tape, k) ==
    [i \in 1..count |-> population[randbelow(tape, k + i - 1, Len(population)) + 1]]

\* x[a], x[b] = x[b], x[a], on positions counted from 1
Swap(x, a, b) ==
    [i \in 1..Len(x) |-> IF i = a THEN x[b] ELSE IF i = b THEN x[a] ELSE x[i]]

\* random.shuffle(x): for i from len(x)-1 down to 1, j = randbelow(i+1) and
\* x[i], x[j] are exchanged
RECURSIVE ShuffleFrom(_, _, _, _)
ShuffleFrom(x, i, tape, k) ==
    IF i < 1 THEN x
    ELSE LET Rest(y) == ShuffleFrom(y, i - 1, tape, k + 1)
         IN  Eval(Rest, Swap(x, i + 1, randbelow(tape, k, i + 1) + 1))

random_shuffle(x, tape, k) == ShuffleFrom(x, Len(x) - 1, tape, k)

(***************************************************************************)
(* generate_strong_password                                                *)
(***************************************************************************)
all_chars == ascii_letters \o digits \o punctuation

generate_unclamped(length, tape) ==
    LET uppercase == random_choice(ascii_uppercase, tape, 0)
        lowercase == random_choice(ascii_lowercase, tape, 1)
        digit     == random_choice(digits, tape, 2)
        special   == random_choice(punctuation, tape, 3)
        remaining == length - 4
        password  == <<uppercase, lowercase, digit, special>>
                         \o random_choices(all_chars, remaining, tape, 4)
        Shuffled(x) == random_shuffle(x, tape, 4 + remaining)
    IN  Eval(Shuffled, password)

generate_strong_password(length, tape) ==
    LET len       == IF length < 8 THEN 8 ELSE length
        uppercase == random_choice(ascii_uppercase, tape, 0)
        lowercase == random_choice(ascii_lowercase, tape, 1)
        digit     == random_choice(digits, tape, 2)
        special   == random_choice(punctuation, tape, 3)
        remaining == len - 4
        password  == <<uppercase, lowercase, digit, special>>
                         \o random_choices(all_chars, remaining, tape, 4)
        Shuffled(x) == random_shuffle(x, tape, 4 + remaining)
    IN  Eval(Shuffled, password)

(***************************************************************************)
(* The inputs of the analyzer.                                             *)
(***************************************************************************)
MaxWeight == 2
DefaultWeight == 10

\* Decimal weights in tenths, as the sidebar shows them
DefaultWeights == [k \in KeySet |-> DefaultWeight]

BoundaryWeights ==
    [length |-> 41, uppercase |-> 21, lowercase |-> 43, digit |-> 0, special |-> 0]

DecimalConfigs == [KeySet -> 0..MaxWeight] \cup {DefaultWeights, BoundaryWeights}

\* The floats number_input hands to main() for a configuration
number_inputs(t) == [k \in KeySet |-> Tenths(t[k])]

WeightConfigs == {number_inputs(t) : t \in DecimalConfigs}

upper(s) == [i \in 1..Len(s) |-> IF islower(s[i]) THEN s[i] - 32 ELSE s[i]]

capitalize(s) == [i \in 1..Len(s) |-> IF i = 1 THEN upper(s)[1] ELSE s[i]]

ClassChars == <<65, 97, 49, 33>>      \* A a 1 !

\* One character of each class of S, filled to n characters with spaces,
\* which are in none of the four classes
Profile(S, n) ==
    LET stem == SelectSeq(ClassChars, LAMBDA c : c \in S)
    IN  stem \o [i \in 1..(n - Len(stem)) |-> 32]

ProfilePasswords ==
    {Profile(S, n) : S \in SUBSET {ClassChars[i] : i \in 1..4},
                     n \in {MinLength - 1, MinLength}}

ExamplePasswords == {
    <<>>,
    <<97, 98, 99>>,                                     \* abc
    <<65, 98, 99, 100, 101, 102, 103, 49, 33>>,         \* Abcdefg1!
    <<97, 98, 99, 100, 101, 102, 103, 104>>,            \* abcdefgh
    <<80, 65, 83, 83, 87, 79, 82, 68>> }                \* PASSWORD

BlacklistPasswords ==
    BLACKLIST \cup {upper(b) : b \in BLACKLIST} \cup {capitalize(b) : b \in BLACKLIST}
        \cup {b \o <<49>> : b \in BLACKLIST}

Passwords == ProfilePasswords \cup ExamplePasswords \cup BlacklistPasswords

(***************************************************************************)
(* The session after construction: both histories empty, no button         *)
(* pressed, nothing analysed or generated.                                 *)
(***************************************************************************)
InitSession ==
    /\ button = "none"
    /\ outcome = "idle"
    /\ analysis = None
    /\ password_analysis = <<>>
    /\ generated_passwords = <<>>
    /\ generated = <<>>

\* The widgets as the first run of main() shows them
InitWidgets ==
    /\ user_password = <<>>
    /\ weights = number_inputs(DefaultWeights)
    /\ pass_length = 12

(***************************************************************************)
(* SpecAnalyze: one call of analyze_password on any of the inputs.         *)
(***************************************************************************)
InitAnalyze ==
    /\ weights \in WeightConfigs
    /\ user_password \in Passwords
    /\ pass_length = 12
    /\ random = <<>>
    /\ InitSession

Analyze ==
    /\ analysis = None
    /\ analysis' = analyze_password(user_password, weights)
    /\ outcome' = "analyzed"
    /\ UNCHANGED <<user_password, weights, button, password_analysis,
                   generated_passwords, pass_length, random, generated>>

SpecAnalyze == InitAnalyze /\ [][Analyze]_vars

(***************************************************************************)
(* SpecGenerate: one call of generate_strong_password, for any requested   *)
(* length and any tape of draws.                                           *)
(***************************************************************************)
MaxLength == 10
TapeLen == 5

RequestedLengths == {-1, 0} \cup (7..MaxLength)

Tapes == [1..TapeLen -> 0..2]

InitGenerate ==
    /\ pass_length \in RequestedLengths
    /\ random \in Tapes
    /\ user_password = <<>>
    /\ weights = number_inputs(DefaultWeights)
    /\ InitSession

Generate ==
    /\ outcome = "idle"
    /\ generated' = generate_strong_password(pass_length, random)
    /\ outcome' = "generated"
    /\ UNCHANGED <<user_password, weights, analysis, button, password_analysis,
                   generated_passwords, pass_length, random>>

SpecGenerate == InitGenerate /\ [][Generate]_vars

(***************************************************************************)
(* Spec: one session of main().  Every interaction reruns the script; a    *)
(* run in which no button returned True shows the widgets and the          *)
(* dashboard only.                                                         *)
(***************************************************************************)
MaxHistory == 2

\* What is typed into the text_input: nothing, abc, Admin, Abcdefg1!
TypedPasswords == {
    <<>>,
    <<97, 98, 99>>,
    <<65, 100, 109, 105, 110>>,
    <<65, 98, 99, 100, 101, 102, 103, 49, 33>> }

\* What the sidebar is set to: the defaults, or every weight 0.0
SidebarWeights == {number_inputs(DefaultWeights), number_inputs([k \in KeySet |-> 0])}

\* Where the slider is put: its minimum or its default
SliderLengths == {8, 12}

\* The draws of a session: all first or all last
SessionTapes == {[i \in 1..TapeLen |-> 0], [i \in 1..TapeLen |-> 2]}

Init ==
    /\ InitWidgets
    /\ random = <<>>
    /\ InitSession

\* A rerun in which neither button returned True
Rerun ==
    /\ button' = "none"
    /\ outcome' = "idle"
    /\ analysis' = None
    /\ generated' = <<>>
    /\ UNCHANGED <<password_analysis, generated_passwords, random>>

EnterPassword ==
    /\ \E p \in TypedPasswords : p # user_password /\ user_password' = p
    /\ Rerun
    /\ UNCHANGED <<weights, pass_length>>

SetWeights ==
    /\ \E w \in SidebarWeights : w # weights /\ weights' = w
    /\ Rerun
    /\ UNCHANGED <<user_password, pass_length>>

MoveSlider ==
    /\ \E n \in SliderLengths : n # pass_length /\ pass_length' = n
    /\ Rerun
    /\ UNCHANGED <<user_password, weights>>

\* The record main() stores for an analysis
Record(password, a) ==
    [password |-> password, strength |-> a.strength, score |-> a.score,
     max_score |-> a.max_score]

\* What the run does with the analysis of a non-empty password: st.error for
\* a rejection; ZeroDivisionError in score / max_score when max_score is 0.0,
\* which ends the run before the append; else the results and the append
Rendered(a) ==
    IF a.error THEN "error"
    ELSE IF a.max_score.m = <<>> THEN "exception"
    ELSE "rendered"

ClickAnalyze ==
    /\ Len(password_analysis) < MaxHistory
    /\ button' = "Analyze Password"
    /\ generated' = <<>>
    /\ IF user_password = <<>>
       THEN /\ outcome' = "warning"
            /\ analysis' = None
            /\ UNCHANGED password_analysis
       ELSE /\ analysis' = analyze_password(user_password, weights)
            /\ outcome' = Rendered(analysis')
            /\ password_analysis' =
                   IF outcome' = "rendered"
                   THEN Append(password_analysis, Record(user_password, analysis'))
                   ELSE password_analysis
    /\ UNCHANGED <<user_password, weights, generated_passwords, pass_length, random>>

ClickGenerate_replacing ==
    /\ Len(generated_passwords) < MaxHistory
    /\ button' = "Generate Secure Password"
    /\ analysis' = None
    /\ \E tape \in SessionTapes :
          /\ random' = tape
          /\ generated' = generate_strong_password(pass_length, tape)
    /\ outcome' = "generated"
    /\ generated_passwords' = <<generated'>>
    /\ UNCHANGED <<user_password, weights, password_analysis, pass_length>>

ClickGenerate ==
    /\ Len(generated_passwords) < MaxHistory
    /\ button' = "Generate Secure Password"
    /\ analysis' = None
    /\ \E tape \in SessionTapes :
          /\ random' = tape
          /\ generated' = generate_strong_password(pass_length, tape)
    /\ outcome' = "generated"
    /\ generated_passwords' = Append(generated_passwords, generated')
    /\ UNCHANGED <<user_password, weights, password_analysis, pass_length>>

Next ==
    \/ EnterPassword
    \/ SetWeights
    \/ MoveSlider
    \/ ClickAnalyze
    \/ ClickGenerate

Spec == Init /\ [][Next]_vars

(***************************************************************************)
(* What the claims speak of.                                               *)
(***************************************************************************)
\* analyze_password has returned
Returned == "error" \in DOMAIN analysis

Accepted == Returned /\ analysis.error = FALSE

RECURSIVE BigToNat(_)
BigToNat(a) == IF a = <<>> THEN 0 ELSE a[1] + Base * BigToNat(Tail(a))

\* The decimal a float below 2^20 shows with one decimal place, in tenths
DecimalTenths(f) ==
    IF f.m = <<>> THEN 0
    ELSE BigToNat(BigShr(BigAdd(BigMulSmall(f.m, 10), BigShl(<<1>>, (-f.e) - 1)), -f.e))

\* The sum of the decimal weights of the criteria in S
RECURSIVE DecimalSum(_, _)
DecimalSum(w, S) ==
    IF S = {} THEN 0
    ELSE LET k == CHOOSE x \in S : TRUE
         IN  DecimalTenths(w[k]) + DecimalSum(w, S \ {k})

\* The band of score/max * 100 in exact arithmetic
ExactStrength(score, max) ==
    IF max = 0 THEN "Weak"
    ELSE IF score * 100 >= 80 * max THEN "Strong"
    ELSE IF score * 100 >= 40 * max THEN "Moderate"
    ELSE "Weak"

UpperCase == 65..90
LowerCase == 97..122
Digit == 48..57
Punctuation == (33..47) \cup (58..64) \cup (91..96) \cup (123..126)

CountOf(password, class) == Cardinality({i \in 1..Len(password) : password[i] \in class})

\* The criteria as the specification words them
Satisfied(password) ==
    {k \in KeySet :
        \/ k = "length" /\ ~(Len(password) < 8)
        \/ k = "uppercase" /\ CountOf(password, UpperCase) >= 1
        \/ k = "lowercase" /\ CountOf(password, LowerCase) >= 1
        \/ k = "digit" /\ CountOf(password, Digit) >= 1
        \/ k = "special" /\ CountOf(password, Punctuation) >= 1}

\* password is a blacklist entry with some of its letters in upper case
CaseVariant(password) ==
    \E b \in BLACKLIST :
        /\ Len(b) = Len(password)
        /\ \A i \in 1..Len(b) :
              \/ password[i] = b[i]
              \/ b[i] \in LowerCase /\ password[i] = b[i] - 32

Affirmative == "Perfectly secure password!"

HintLine(met, k, text) == IF k \in met THEN "" ELSE "\n" \o text

\* The header and one line per criterion not in met, in the fixed order
HintsFor(met) ==
    "Strengthen your password by adding:"
        \o HintLine(met, "length", "More characters (minimum 8)")
        \o HintLine(met, "uppercase", "Uppercase letters")
        \o HintLine(met, "lowercase", "Lowercase letters")
        \o HintLine(met, "digit", "Numbers")
        \o HintLine(met, "special", "Special characters")

\* C1: a password that is a blacklist entry in any mix of cases is rejected
\* whatever the weights, the rejection carrying only error and message; every
\* other password gets a success verdict.
C1_BlacklistDecides ==
    Returned =>
        IF CaseVariant(user_password)
        THEN analysis.error = TRUE /\ DOMAIN analysis = {"error", "message"}
        ELSE /\ analysis.error = FALSE
             /\ DOMAIN analysis =
                    {"error", "criteria", "score", "max_score", "strength", "feedback"}

C1_Witness ==
    /\ Returned
    /\ analysis.error = TRUE
    /\ user_password \notin BLACKLIST
    /\ weights # number_inputs([k \in KeySet |-> 0])

\* C2: the strength label is the band of score/max_score * 100, the lower edge
\* of each band included (exactly 80% is Strong, exactly 40% is Moderate), and
\* Weak when max_score is 0.
C2_ExactBands ==
    Accepted =>
        analysis.strength =
            ExactStrength(DecimalSum(weights, Satisfied(user_password)),
                          DecimalSum(weights, KeySet))

\* C3: score is the sum of the weights of exactly the criteria that are true,
\* max_score the sum of all five, 0 <= score <= max_score, score = max_score
\* when all criteria pass and score = 0 for the empty string.
C3_ScoreIsWeightedSum ==
    Accepted =>
        LET met == Satisfied(user_password) IN
        /\ analysis.criteria = [k \in KeySet |-> k \in met]
        /\ DecimalTenths(analysis.score) = DecimalSum(weights, met)
        /\ DecimalTenths(analysis.max_score) = DecimalSum(weights, KeySet)
        /\ FGE(analysis.score, FZero)
        /\ FGE(analysis.max_score, analysis.score)
        /\ (met = KeySet => analysis.score = analysis.max_score)
        /\ (met = {} => analysis.score = FZero)
        /\ (user_password = <<>> => met = {})

C3_Witness ==
    /\ Accepted
    /\ Satisfied(user_password) = {"length", "digit"}
    /\ DecimalTenths(analysis.score) = 3
    /\ DecimalTenths(analysis.max_score) = 8

\* C5: when the strength is not Strong the feedback is the header followed by
\* one hint per failed criterion, none for a passed one, in the order length,
\* uppercase, lowercase, digit, special.
C5_HintsForFailedCriteria ==
    (Accepted /\ analysis.strength # "Strong") =>
        analysis.feedback = HintsFor(Satisfied(user_password))

C5_Witness ==
    /\ Accepted
    /\ user_password = <<97, 98, 99>>
    /\ weights = number_inputs(DefaultWeights)
    /\ analysis.strength = "Weak"
    /\ analysis.feedback =
           "Strengthen your password by adding:\nMore characters (minimum 8)\nUppercase letters\nNumbers\nSpecial characters"

\* C6: a password passing all five criteria gets the single affirmative
\* message whatever the weights, the all-zero configuration included.
C6_AllPassAffirmative ==
    (Accepted /\ Satisfied(user_password) = KeySet) => analysis.feedback = Affirmative

PASSWORD == <<80, 65, 83, 83, 87, 79, 82, 68>>

\* C7 as claimed: "PASSWORD" with all weights 1 gets a success verdict with
\* length and uppercase true, score 2 of 5 and strength Moderate.
C7_PasswordModerate ==
    (Returned /\ user_password = PASSWORD /\ weights = number_inputs(DefaultWeights)) =>
        /\ analysis.error = FALSE
        /\ analysis.criteria = [k \in KeySet |-> k \in {"length", "uppercase"}]
        /\ analysis.score = FromNat(2)
        /\ analysis.max_score = FromNat(5)
        /\ analysis.strength = "Moderate"

\* C7 as amended: "PASSWORD" with all weights 1 is rejected as the blacklist
\* entry "password"; a password with the same criteria (length and uppercase
\* only) that is not blacklisted scores 2 of 5 and is Moderate.
C7_PasswordRejected ==
    (Returned /\ weights = number_inputs(DefaultWeights)) =>
        /\ user_password = PASSWORD =>
              analysis.error = TRUE /\ DOMAIN analysis = {"error", "message"}
        /\ (Satisfied(user_password) = {"length", "uppercase"}
                /\ ~CaseVariant(user_password)) =>
              /\ analysis.error = FALSE
              /\ analysis.criteria = [k \in KeySet |-> k \in {"length", "uppercase"}]
              /\ analysis.score = FromNat(2)
              /\ analysis.max_score = FromNat(5)
              /\ analysis.strength = "Moderate"

C7_Witness ==
    /\ Returned
    /\ user_password = PASSWORD
    /\ weights = number_inputs(DefaultWeights)
    /\ analysis.error = TRUE

\* C8: a Strong verdict carries exactly the affirmative message, also when
\* criteria are unmet.
C8_StrongIsAffirmative ==
    (Accepted /\ analysis.strength = "Strong") => analysis.feedback = Affirmative

C8_Witness ==
    /\ Accepted
    /\ analysis.strength = "Strong"
    /\ Satisfied(user_password) # KeySet
    /\ analysis.feedback = Affirmative

\* s is a prefix of t: t keeps every entry of s, in order
IsPrefix(s, t) == Len(s) <= Len(t) /\ \A i \in 1..Len(s) : t[i] = s[i]

\* C4: generate_strong_password(n) returns exactly max(n, 8) characters, with
\* at least one upper-case letter, one lower-case letter, one digit and one
\* punctuation character, for every n (negative, zero, below 8 or not) and
\* whatever the random module draws.
C4_GeneratedShape ==
    outcome = "generated" =>
        /\ Len(generated) = Max(pass_length, 8)
        /\ CountOf(generated, UpperCase) >= 1
        /\ CountOf(generated, LowerCase) >= 1
        /\ CountOf(generated, Digit) >= 1
        /\ CountOf(generated, Punctuation) >= 1

\* A negative length was asked, and the shuffle moved the upper-case letter
\* away from the front
C4_Witness ==
    /\ outcome = "generated"
    /\ pass_length < 0
    /\ Len(generated) = 8
    /\ generated[1] \notin UpperCase

\* C9: for every weight configuration of the sidebar, all weights zero
\* included, pressing Analyze on a non-empty password that is not
\* blacklisted completes: the results are rendered and exactly one record
\* of the password, its strength, score and max_score is appended.
C9_AnalyzeCompletes ==
    [][(/\ button' = "Analyze Password"
        /\ user_password' # <<>>
        /\ ~CaseVariant(user_password'))
       => /\ outcome' = "rendered"
          /\ Len(password_analysis') = Len(password_analysis) + 1
          /\ password_analysis'[Len(password_analysis')].password = user_password'
          /\ password_analysis'[Len(password_analysis')].strength = analysis'.strength
          /\ password_analysis'[Len(password_analysis')].score = analysis'.score
          /\ password_analysis'[Len(password_analysis')].max_score = analysis'.max_score]_vars

\* C10: both histories are append-only.  Every interaction keeps the earlier
\* entries of both, in order; a press of Analyze appends at most one
\* analysis record, none for an empty or a blacklisted password, and leaves
\* the generated passwords alone; a press of Generate appends exactly the
\* generated password and leaves the analysis records alone; a run without a
\* button changes neither.
C10_HistoriesAppendOnly ==
    [][/\ IsPrefix(password_analysis, password_analysis')
       /\ IsPrefix(generated_passwords, generated_passwords')
       /\ button' = "Analyze Password" =>
              /\ generated_passwords' = generated_passwords
              /\ Len(password_analysis') <= Len(password_analysis) + 1
              /\ (user_password' = <<>> \/ CaseVariant(user_password'))
                     => password_analysis' = password_analysis
       /\ button' = "Generate Secure Password" =>
              /\ generated_passwords' = Append(generated_passwords, generated')
              /\ password_analysis' = password_analysis
       /\ button' = "none" =>
              /\ generated_passwords' = generated_passwords
              /\ password_analysis' = password_analysis]_vars

\* Two different analyses and two different generated passwords are on
\* record, in the order they were made
C10_Witness ==
    /\ Len(password_analysis) = 2
    /\ Len(generated_passwords) = 2
    /\ password_analysis[1].password # password_analysis[2].password
    /\ generated_passwords[1] # generated_passwords[2]

====
